---------------------------- MODULE Spec2Model ----------------------------
(***************************************************************************)
(* KCGT Market Analyzer (src/app.py): the signal pipeline                  *)
(*   prices -> log -> second difference -> left pad -> rolling std -> x1000 *)
(* the threshold calibration, the danger mask and the verdict, and the     *)
(* cached fetch in front of them.                                          *)
(*                                                                         *)
(* Numbers are fixed point.  Log-prices and curvature are in thousandths   *)
(* (1e-3); the rolling standard deviation is in 1e-5; the stress index     *)
(* (roughness * 1000), the threshold, 0.01 and 1.0 are in hundredths       *)
(* (1e-2); sensitivity is in tenths.  Square roots and divisions round     *)
(* down.  IEEE rounding of the float operations is not modelled.           *)
(***************************************************************************)
EXTENDS Integers, Sequences, FiniteSets, TLC

VARIABLES
    clock,          \* wall clock, seconds
    cache,          \* st.cache_data store of get_data: key -> entry
    ticker_input,   \* sidebar text input
    interval,       \* sidebar selectbox
    window_size,    \* sidebar slider 10..50
    sensitivity,    \* sidebar slider 1.0..4.0, in tenths
    df,             \* what get_data returned to the script
    hit,            \* whether get_data was answered from the cache
    prices,         \* df['Close'].values
    stress_index,   \* calculate_kcgt_metrics(prices, window_size)
    threshold,
    danger_mask,
    latest_stress,
    is_danger,
    display,        \* what the page shows in the verdict area
    age,            \* age of the data get_data returned, seconds
    pc              \* position of the script run

vars == <<clock, cache, ticker_input, interval, window_size, sensitivity, df,
          hit, prices, stress_index, threshold, danger_mask, latest_stress,
          is_danger, display, age, pc>>

analysis_vars == <<prices, stress_index, threshold, danger_mask,
                   latest_stress, is_danger>>

-----------------------------------------------------------------------------
(* Bounds of the model *)

MaxLen == 11        \* longest exhaustively enumerated price series
MaxWindow == 11     \* windows 10..MaxWindow of the slider's 10..50
MaxClock == 90      \* the clock stops here

(* Program constants *)

MinWindow == 10     \* slider lower end
TTL == 60           \* cache_data(ttl=60)
CalibMin == 30      \* max(30, ...)
Floor == 1          \* 0.01 in hundredths
Fallback == 100     \* 1.0 in hundredths

NaN == -1           \* the null of a float series; std is never negative
Unbound == -2       \* a script variable no statement of the run assigned

Windows == MinWindow..MaxWindow
Sens == {10, 15, 20, 40}
BasePrices == {1000, 1001}
Scales == {2, 3}
TickSteps == {30}

-----------------------------------------------------------------------------
(* Arithmetic helpers *)

Max(a, b) == IF a >= b THEN a ELSE b
Min(a, b) == IF a <= b THEN a ELSE b

RECURSIVE SqrtBetween(_, _, _)
SqrtBetween(n, lo, hi) ==
    IF lo >= hi THEN lo
    ELSE LET mid == (lo + hi + 1) \div 2
         IN  IF mid * mid <= n THEN SqrtBetween(n, mid, hi)
                               ELSE SqrtBetween(n, lo, mid - 1)

ISqrt(n) == SqrtBetween(n, 0, Min(n, 46340))

RECURSIVE SumTo(_, _)
SumTo(a, n) == IF n = 0 THEN 0 ELSE a[n] + SumTo(a, n - 1)
Sum(a) == SumTo(a, Len(a))

SumSq(a) == Sum([i \in 1..Len(a) |-> a[i] * a[i]])

IsNaN(x) == x = NaN

-----------------------------------------------------------------------------
(* calculate_kcgt_metrics *)

LnGrid1 == <<6908, 6909, 6910, 6911, 6912, 6913, 6914, 6915,
             6916, 6917, 6918, 6919, 6920, 6921, 6922, 6923>>
LnGrid2 == <<7601, 7602, 7603, 7604, 7605, 7606, 7607, 7608,
             7609, 7610, 7611, 7612, 7613, 7614, 7615, 7616>>
LnGrid3 == <<8006, 8007, 8008, 8009, 8010, 8011, 8012, 8013,
             8014, 8015, 8016, 8017, 8018, 8019, 8020, 8021>>

\* the price itself, where the logarithm was meant
LogForgotten(p) == p

\* round(1000 * ln p) on the price grid k * (1000 + i), k in 1..3, i in 0..15
Log(p) ==
    IF p < 2000 THEN LnGrid1[p - 999]
    ELSE IF p < 3000 THEN LnGrid2[(p - 2000) \div 2 + 1]
    ELSE LnGrid3[(p - 3000) \div 3 + 1]

np_log(price_series) == [i \in 1..Len(price_series) |-> Log(price_series[i])]

\* np.diff(a, n=1): a[1:] - a[:-1]; empty for fewer than two elements
np_diff(a) == [i \in 1..(IF Len(a) > 0 THEN Len(a) - 1 ELSE 0) |-> a[i + 1] - a[i]]

\* a first difference, where the second was meant
FirstDifference(a) == np_diff(a)

\* np.diff(a, n=2)
np_diff2(a) == np_diff(np_diff(a))

\* np.pad(c, (2, 0), 'constant', constant_values=0)
np_pad(c) == <<0, 0>> \o c

\* sample standard deviation (ddof = 1) of w >= 2 values, in hundredths of
\* the values' unit
SampleStd(xs) ==
    LET w == Len(xs)
        s == Sum(xs)
    IN  ISqrt((10000 * (w * SumSq(xs) - s * s)) \div (w * (w - 1)))

\* a window one longer than asked for
RollingStdLate(c, window) ==
    [i \in 1..Len(c) |->
        IF i < window + 1 THEN NaN
        ELSE SampleStd(SubSeq(c, i - window + 1, i))]

\* pd.Series(c).rolling(window=window).std(): min_periods = window
RollingStd(c, window) ==
    [i \in 1..Len(c) |->
        IF i < window THEN NaN
        ELSE SampleStd(SubSeq(c, i - window + 1, i))]

\* roughness * 1000: the product, in 1e-5, re-expressed in 1e-2; NaN stays NaN
Times1000(r) == [i \in 1..Len(r) |-> IF IsNaN(r[i]) THEN NaN ELSE (r[i] * 1000) \div 1000]

Curvature(price_series) == np_pad(np_diff2(np_log(price_series)))

calculate_kcgt_metrics(price_series, window) ==
    Times1000(RollingStd(Curvature(price_series), window))


-----------------------------------------------------------------------------
(* Threshold calibration, danger mask and verdict (the script, lines 113-146) *)

\* int(n * 0.25)
CalibLen(n) == Max(CalibMin, (n * 25) \div 100)

\* stress_index[:calib_len]
Prefix(a, n) == SubSeq(a, 1, Min(n, Len(a)))

\* base_stress[~np.isnan(base_stress)]
DropNaN(a) == SelectSeq(a, LAMBDA x : ~IsNaN(x))

BaseStress(stress) == DropNaN(Prefix(stress, CalibLen(Len(stress))))

\* np.mean
Mean(a) == Sum(a) \div Len(a)

\* np.std: population standard deviation (ddof = 0)
PopStd(a) ==
    LET n == Len(a)
        s == Sum(a)
    IN  ISqrt(n * SumSq(a) - s * s) \div n

\* the sensitivity term subtracted
RawThresholdMinus(base, sens) == Mean(base) - (sens * PopStd(base)) \div 10

\* np.mean(base_stress) + sensitivity * np.std(base_stress)
RawThreshold(base, sens) == Mean(base) + (sens * PopStd(base)) \div 10

\* no lower bound on the threshold
NoFloor(t) == t

\* max(threshold, 0.01)
ApplyFloor(t) == Max(t, Floor)

Threshold(stress, sens) ==
    LET base_stress == BaseStress(stress)
    IN  IF Len(base_stress) > 0
        THEN ApplyFloor(RawThreshold(base_stress, sens))
        ELSE Fallback

\* greater-or-equal, NaN still false
GreaterOrEqual(x, t) == IF IsNaN(x) \/ IsNaN(t) THEN FALSE ELSE x >= t

\* the float comparison  x > t : false when either side is NaN
Greater(x, t) == IF IsNaN(x) \/ IsNaN(t) THEN FALSE ELSE x > t

DangerMask(stress, t) == [i \in 1..Len(stress) |-> Greater(stress[i], t)]

\* stress_index.iloc[-1]
Latest(stress) == stress[Len(stress)]

Verdict(danger) == IF danger THEN "WARNING" ELSE "STABLE"

\* the body of  if df is not None and not df.empty:  up to the verdict
Analysis(close, window, sens) ==
    /\ prices' = close
    /\ stress_index' = calculate_kcgt_metrics(close, window)
    /\ threshold' = Threshold(stress_index', sens)
    /\ danger_mask' = DangerMask(stress_index', threshold')
    /\ latest_stress' = Latest(stress_index')
    /\ is_danger' = Greater(latest_stress', threshold')
    /\ display' = Verdict(is_danger')

\* the else branch: st.error(...), nothing of the analysis is assigned
NoData ==
    /\ prices' = <<>>
    /\ stress_index' = <<>>
    /\ threshold' = Unbound
    /\ danger_mask' = <<>>
    /\ latest_stress' = Unbound
    /\ is_danger' = FALSE
    /\ display' = "NO_DATA"

\* if ticker_input:  is false: neither branch runs, the page shows no result
Skipped ==
    /\ prices' = <<>>
    /\ stress_index' = <<>>
    /\ threshold' = Unbound
    /\ danger_mask' = <<>>
    /\ latest_stress' = Unbound
    /\ is_danger' = FALSE
    /\ display' = "IDLE"

-----------------------------------------------------------------------------
(* get_data behind st.cache_data(ttl=60) *)

Tickers == {"", "BTC-USD"}
Intervals == {"1d", "1h"}
Periods == {"7d", "2y"}

\* if interval in ["1m", "5m", "15m", "1h"]: period = "7d" else "2y"
Period(iv) == IF iv \in {"1m", "5m", "15m", "1h"} THEN "7d" ELSE "2y"

\* the arguments of get_data are the cache key
CacheKey(t, iv, p) == <<t, iv, p>>

Keys == {CacheKey(t, iv, p) : t \in Tickers, iv \in Intervals, p \in Periods}

\* what a call of get_data was asked for
Args(t, iv, p) == [ticker |-> t, interval |-> iv, period |-> p]
NoArgs == Args("", "", "")

\* the two shapes of get_data's result, with the call that produced it
None(args, now) == [kind |-> "none", close |-> <<>>, src |-> args, at |-> now]
Frame(close, args, now) == [kind |-> "frame", close |-> close, src |-> args, at |-> now]

NoEntry == [present |-> FALSE, value |-> None(NoArgs, 0), stored |-> 0]

\* an entry that never expires
ValidForever(e, now) == e.present

\* an entry is served while  now < stored + ttl
Valid(e, now) == e.present /\ now - e.stored < TTL

\* the body of get_data: the download, or None when it raises
get_data(resp, args, now) ==
    IF resp.raises THEN None(args, now) ELSE Frame(resp.close, args, now)

\* only the None test
HasDataNotNone(d) == d.kind # "none"

\* df is not None and not df.empty
HasData(d) == d.kind # "none" /\ Len(d.close) > 0

-----------------------------------------------------------------------------
(* What the data provider can answer *)

Raises == [raises |-> TRUE, close |-> <<>>]
Answer(close) == [raises |-> FALSE, close |-> close]

\* n prices: a flat lead of q, then pat repeated
Long(n, q, pat) ==
    [i \in 1..n |-> IF i <= q THEN 1000 ELSE pat[((i - q - 1) % Len(pat)) + 1]]

SeqsOfLen(S, n) == [1..n -> S]
ShortSeries == UNION {SeqsOfLen(BasePrices, n) : n \in 1..MaxLen}
Ramps == {[i \in 1..n |-> 1000 + (i - 1)] : n \in 2..MaxLen}
           \cup {[i \in 1..n |-> 1000 + (n - i)] : n \in 2..MaxLen}
LongSeries == {Long(n, q, pat) : n \in {32, 124}, q \in {0, 28},
                                 pat \in SeqsOfLen(BasePrices, 3)}

Feed == {Raises, Answer(<<>>), Answer(<<1000, 1001, 1000>>),
         Answer(Long(32, 28, <<1000, 1001, 1001>>))}
AppWindows == {MinWindow, 20}
AppSens == {20}

-----------------------------------------------------------------------------
(* The application: one script run per interaction, and the clock *)

Init ==
    /\ clock = 0
    /\ cache = [k \in Keys |-> NoEntry]
    /\ ticker_input = ""
    /\ interval = "1d"
    /\ window_size = 20
    /\ sensitivity = 20
    /\ df = None(NoArgs, 0)
    /\ hit = FALSE
    /\ prices = <<>>
    /\ stress_index = <<>>
    /\ threshold = Unbound
    /\ danger_mask = <<>>
    /\ latest_stress = Unbound
    /\ is_danger = FALSE
    /\ display = "NONE"
    /\ age = 0
    /\ pc = "start"

\* one run of the script, top to bottom
Run(t, iv, w, s, resp) ==
    /\ ticker_input' = t
    /\ interval' = iv
    /\ window_size' = w
    /\ sensitivity' = s
    /\ pc' = "done"
    /\ UNCHANGED clock
    /\ IF t = ""
       THEN /\ UNCHANGED <<cache, df, hit, age>>
            /\ Skipped
       ELSE LET key   == CacheKey(t, iv, Period(iv))
                fresh == Valid(cache[key], clock)
                got   == IF fresh THEN cache[key].value
                                  ELSE get_data(resp, Args(t, iv, Period(iv)), clock)
            IN  /\ cache' = IF fresh THEN cache
                            ELSE [cache EXCEPT ![key] =
                                    [present |-> TRUE, value |-> got, stored |-> clock]]
                /\ df' = got
                /\ hit' = fresh
                /\ age' = clock - got.at
                /\ IF HasData(got) THEN Analysis(got.close, w, s) ELSE NoData

Tick ==
    /\ \E d \in TickSteps : clock + d <= MaxClock /\ clock' = clock + d
    /\ UNCHANGED <<cache, ticker_input, interval, window_size, sensitivity, df,
                   hit, prices, stress_index, threshold, danger_mask,
                   latest_stress, is_danger, display, age, pc>>

Next ==
    \/ \E t \in Tickers, iv \in Intervals, w \in AppWindows, s \in AppSens, resp \in Feed :
          Run(t, iv, w, s, resp)
    \/ Tick

Spec == Init /\ [][Next]_vars

-----------------------------------------------------------------------------
(* The analysis as a function of the fetched series *)

InitAnalysis ==
    /\ clock = 0
    /\ cache = [k \in Keys |-> NoEntry]
    /\ ticker_input = "BTC-USD"
    /\ interval = "1d"
    /\ window_size \in Windows
    /\ sensitivity = 20
    /\ \E close \in ShortSeries \cup Ramps \cup LongSeries :
          df = Frame(close, Args("BTC-USD", "1d", "2y"), 0)
    /\ hit = FALSE
    /\ prices = <<>>
    /\ stress_index = <<>>
    /\ threshold = Unbound
    /\ danger_mask = <<>>
    /\ latest_stress = Unbound
    /\ is_danger = FALSE
    /\ display = "NONE"
    /\ age = 0
    /\ pc = "fetched"

Analyze ==
    /\ pc = "fetched"
    /\ HasData(df)
    /\ \E s \in Sens :
          /\ sensitivity' = s
          /\ Analysis(df.close, window_size, s)
    /\ pc' = "done"
    /\ UNCHANGED <<clock, cache, ticker_input, interval, window_size, df, hit, age>>

NextAnalysis == Analyze

SpecAnalysis == InitAnalysis /\ [][NextAnalysis]_vars

-----------------------------------------------------------------------------
(* Properties *)

Analysed == pc = "done" /\ display \in {"STABLE", "WARNING"}

ScalePrices(p, k) == [i \in 1..Len(p) |-> k * p[i]]

IsLinear(L) == \A i \in 1..(Len(L) - 2) : L[i + 1] - L[i] = L[i + 2] - L[i + 1]

\* C1: for every price sequence of length N >= 1 and every window, the
\* roughness sequence has length exactly N (N = 1 and N = 2 included).
C1_LengthIsN ==
    Analysed => Len(stress_index) = Len(prices)

\* C2 as stated: exactly the first window+1 entries of the roughness
\* sequence are null and every later entry is a real value.
C2_FirstWindowPlusOneNull ==
    Analysed =>
        \A i \in 1..Len(stress_index) :
            IsNaN(stress_index[i]) <=> i <= window_size + 1

\* C2 amended: exactly the first window-1 entries of the roughness sequence
\* are null and every entry from index window-1 (0-based) on is a real
\* value; a series shorter than window yields an entirely null sequence.
C2_FirstWindowMinusOneNull ==
    Analysed =>
        /\ \A i \in 1..Len(stress_index) :
              IsNaN(stress_index[i]) <=> i <= window_size - 1
        /\ Len(prices) < window_size =>
              \A i \in 1..Len(stress_index) : IsNaN(stress_index[i])

C2_Witness ==
    /\ Analysed
    /\ Len(prices) > window_size
    /\ IsNaN(stress_index[window_size - 1])
    /\ ~IsNaN(stress_index[window_size])
    /\ ~IsNaN(stress_index[window_size + 1])

\* C3: danger_mask has the length of the roughness sequence, and
\* danger_mask[i] is true iff roughness[i] is non-null and strictly greater
\* than threshold; it is never true where roughness[i] is null.
C3_DangerMask ==
    Analysed =>
        /\ Len(danger_mask) = Len(stress_index)
        /\ \A i \in 1..Len(stress_index) :
              danger_mask[i] <=>
                  (stress_index[i] # NaN /\ stress_index[i] > threshold)
        /\ \A i \in 1..Len(stress_index) :
              stress_index[i] = NaN => ~danger_mask[i]

C3_Witness ==
    /\ Analysed
    /\ \E i \in 1..Len(stress_index) : danger_mask[i]
    /\ \E i \in 1..Len(stress_index) : stress_index[i] = NaN /\ ~danger_mask[i]
    /\ \E i \in 1..Len(stress_index) :
          stress_index[i] # NaN /\ stress_index[i] <= threshold /\ ~danger_mask[i]

\* C4: the threshold is >= 0.01: it is max(mean + sensitivity*stddev, 0.01)
\* of the null-stripped calibration prefix of length max(30, floor(0.25*len))
\* when that prefix is non-empty, and exactly 1.0 when it is empty.
C4_ThresholdFloor ==
    Analysed =>
        LET n    == Len(stress_index)
            k    == IF 30 >= (n * 25) \div 100 THEN 30 ELSE (n * 25) \div 100
            base == SelectSeq(SubSeq(stress_index, 1, IF k <= n THEN k ELSE n),
                              LAMBDA x : x # NaN)
        IN  /\ threshold >= 1
            /\ Len(base) > 0 =>
                  LET raw == Mean(base) + (sensitivity * PopStd(base)) \div 10
                  IN  threshold = IF raw >= 1 THEN raw ELSE 1
            /\ Len(base) = 0 => threshold = 100

C4_Witness ==
    /\ Analysed
    /\ Len(BaseStress(stress_index)) > 0
    /\ RawThreshold(BaseStress(stress_index), sensitivity) < Floor
    /\ threshold = Floor

\* C9: for a fixed roughness sequence the threshold is non-decreasing in
\* sensitivity, floor and fallback included.
C9_MonotoneInSensitivity ==
    Analysed =>
        \A s1, s2 \in Sens :
            s1 <= s2 => Threshold(stress_index, s1) <= Threshold(stress_index, s2)

C9_Witness ==
    /\ Analysed
    /\ threshold = Threshold(stress_index, sensitivity)
    /\ \E s1, s2 \in Sens :
          s1 < s2 /\ Threshold(stress_index, s1) < Threshold(stress_index, s2)

\* C8: multiplying every price by the same positive factor leaves the
\* roughness sequence unchanged.
C8_ScaleInvariant ==
    Analysed =>
        \A k \in Scales :
            calculate_kcgt_metrics(ScalePrices(prices, k), window_size) = stress_index

C8_Witness ==
    /\ Analysed
    /\ \E i \in 1..Len(stress_index) : stress_index[i] > 0
    /\ \E i, j \in 1..Len(prices) : prices[i] # prices[j]

C5_NullLatestIsUndetermined ==
    (Analysed /\ IsNaN(latest_stress)) => display # "STABLE"

\* C6: when the fetch raises, returns no data or returns an empty series,
\* the request ends in the 'no data' outcome and no roughness, threshold,
\* danger mask or verdict is computed for it.
C6_NoDataSkipsAnalysis ==
    (pc = "done" /\ ticker_input # "" /\ (df.kind = "none" \/ Len(df.close) = 0)) =>
        /\ display = "NO_DATA"
        /\ stress_index = <<>>
        /\ danger_mask = <<>>
        /\ threshold = Unbound
        /\ latest_stress = Unbound
        /\ ~is_danger

C6_Witness ==
    /\ pc = "done"
    /\ ticker_input # ""
    /\ df.kind = "frame"
    /\ Len(df.close) = 0
    /\ display = "NO_DATA"

\* C7: the cache in front of get_data is keyed by (symbol, interval,
\* period) and never returns a result later than 60 seconds after it was
\* stored: after expiry a request downloads afresh, and a request never
\* receives the entry of other parameters.
C7_CacheFreshAndKeyed ==
    (pc = "done" /\ ticker_input # "") =>
        /\ df.src = Args(ticker_input, interval, Period(interval))
        /\ age <= TTL
        /\ ~hit => age = 0

C7_Witness ==
    /\ pc = "done"
    /\ ticker_input # ""
    /\ hit
    /\ age > 0
    /\ \E k \in Keys :
          /\ k # CacheKey(ticker_input, interval, Period(interval))
          /\ cache[k].present

=============================================================================
